---- MODULE Spec2Model ----
(***************************************************************************)
(* Book Suggestion Request: the workflow hooks of the document class       *)
(* BookSuggestionRequest (book_suggestion_request.py).  One document, its  *)
(* DocShare rows (access grants) and its ToDo rows (tasks), driven by the  *)
(* host's save lifecycle: before_validate, before_save, the database       *)
(* write, then on_submit or on_update_after_submit.                        *)
(***************************************************************************)
EXTENDS Integers, Sequences, FiniteSets, TLC

VARIABLES
    doc,        \* the in-memory document of the running save: workflow_state,
                \* librarian, hod, library_convener
    prev,       \* doc._previous_workflow_state, or Unset when the attribute is absent
    settings,   \* what frappe.get_single("Library Settings") gives the running save
    db_workflow_state,  \* the workflow_state of the persisted document row
    is_new,     \* the document has never been written to the database
    shares,     \* DocShare rows of the document: the access grants
    todos,      \* ToDo rows referring to the document, in creation order: each
                \* [allocated_to, status]; reference_type and reference_name are
                \* this document's in every row, and the description text is
                \* read by no hook, so rows carry neither
    pc,         \* the host's position in the save lifecycle
    result,     \* how the running save ended
    last,       \* history: the stores as the post-save hook of this save found
                \* them, and the host call that raised in it
    setup,      \* what the deployment keeps between saves: the default approvers
                \* of Library Settings and the hod stored on the document
    holder,     \* history: the user granted when the document entered the
                \* persisted workflow state
    procs       \* concurrent requests inside _share_and_assign: each one's
                \* position, user and the answer its existence check got

vars == <<doc, prev, settings, db_workflow_state, is_new, shares, todos, pc, result,
          last, setup, holder, procs>>

\* the variables the hooks of a single save neither read nor write
env == <<setup, holder, procs>>

----------------------------------------------------------------------------
(* Bounds *)

\* ToDo rows the model lets one document accumulate
MaxTodos == 3

(* Values *)

\* Python's None (and any other falsy user or state value)
None == "None"
\* hasattr(self, '_previous_workflow_state') is false
Unset == "<unset>"

Users == {"u1", "u2"}
MaybeUser == Users \cup {None}

PDC == "Pending for Duplication Check"
PHOD == "Pending for HOD Approval"
PLC == "Pending for Library Convener Approval"
Approved == "Approved"
Rejected == "Rejected"
\* a workflow state the configuration does not know
Draft == "Draft"

WorkflowStates == {PDC, PHOD, PLC, Approved, Rejected, Draft, None}

\* dict.get(key, default)
Get(d, key, default) == IF key \in DOMAIN d THEN d[key] ELSE default

\* Mutant: the rule of "Pending for HOD Approval" grants write as well
WORKFLOW_CONFIG_hod_write ==
    (PDC :> [approver_field |-> "librarian",
             task_description |-> "Duplication Check",
             permissions |-> [read |-> 1, write |-> 1, submit |-> 1, share |-> 1],
             previous_approver_field |-> None])
    @@ (PHOD :> [approver_field |-> "hod",
                 task_description |-> "HOD Approval",
                 permissions |-> [read |-> 1, write |-> 1, submit |-> 1, share |-> 1],
                 previous_approver_field |-> "librarian"])
    @@ (PLC :> [approver_field |-> "library_convener",
                task_description |-> "Library Convener Approval",
                permissions |-> [read |-> 1, write |-> 0, submit |-> 1, share |-> 1],
                previous_approver_field |-> "hod"])
    @@ (Approved :> [previous_approver_field |-> "library_convener"])
    @@ (Rejected :> [previous_approver_field |-> "library_convener"])

\* Mutant: the terminal rules name hod as the previous approver
WORKFLOW_CONFIG_terminal_hod ==
    (PDC :> [approver_field |-> "librarian",
             task_description |-> "Duplication Check",
             permissions |-> [read |-> 1, write |-> 1, submit |-> 1, share |-> 1],
             previous_approver_field |-> None])
    @@ (PHOD :> [approver_field |-> "hod",
                 task_description |-> "HOD Approval",
                 permissions |-> [read |-> 1, write |-> 0, submit |-> 1, share |-> 1],
                 previous_approver_field |-> "librarian"])
    @@ (PLC :> [approver_field |-> "library_convener",
                task_description |-> "Library Convener Approval",
                permissions |-> [read |-> 1, write |-> 0, submit |-> 1, share |-> 1],
                previous_approver_field |-> "hod"])
    @@ (Approved :> [previous_approver_field |-> "hod"])
    @@ (Rejected :> [previous_approver_field |-> "hod"])

WORKFLOW_CONFIG ==
    (PDC :> [approver_field |-> "librarian",
             task_description |-> "Duplication Check",
             permissions |-> [read |-> 1, write |-> 1, submit |-> 1, share |-> 1],
             previous_approver_field |-> None])
    @@ (PHOD :> [approver_field |-> "hod",
                 task_description |-> "HOD Approval",
                 permissions |-> [read |-> 1, write |-> 0, submit |-> 1, share |-> 1],
                 previous_approver_field |-> "librarian"])
    @@ (PLC :> [approver_field |-> "library_convener",
                task_description |-> "Library Convener Approval",
                permissions |-> [read |-> 1, write |-> 0, submit |-> 1, share |-> 1],
                previous_approver_field |-> "hod"])
    @@ (Approved :> [previous_approver_field |-> "library_convener"])
    @@ (Rejected :> [previous_approver_field |-> "library_convener"])

\* the default of state_config.get("permissions", {"read": 1})
DefaultPermissions == [read |-> 1]

----------------------------------------------------------------------------
(* The host's stores, as the hooks use them *)

\* frappe.share.add: create or update the user's DocShare row
ShareAdd(sh, user, read, write, submit, share) ==
    {g \in sh : g.user # user}
        \cup {[user |-> user, read |-> read, write |-> write,
               submit |-> submit, share |-> share]}

\* frappe.share.remove: delete the user's DocShare row, if any
ShareRemove(sh, user) == {g \in sh : g.user # user}

\* the ToDo rows matching {reference, allocated_to: user, status: "Open"}
OpenTodos(td, user) ==
    {i \in DOMAIN td : td[i].allocated_to = user /\ td[i].status = "Open"}

\* the n lowest elements of a set of row indices
RECURSIVE FirstN(_, _)
FirstN(idx, n) ==
    IF n = 0 \/ idx = {} THEN {}
    ELSE LET m == CHOOSE i \in idx : \A j \in idx : i <= j
         IN  {m} \cup FirstN(idx \ {m}, n - 1)

\* Mutant: the first row of idx is deleted, the others are closed
CloseTodos_delete(td, idx) ==
    IF idx = {} THEN td
    ELSE LET m == CHOOSE i \in idx : \A j \in idx : i <= j
             kept == SubSeq(td, 1, m - 1) \o SubSeq(td, m + 1, Len(td))
         IN  [i \in DOMAIN kept |->
                 IF (IF i < m THEN i ELSE i + 1) \in idx
                 THEN [kept[i] EXCEPT !.status = "Closed"] ELSE kept[i]]

\* todo_doc.status = "Closed"; todo_doc.save() for each row of idx
CloseTodos(td, idx) ==
    [i \in DOMAIN td |->
        IF i \in idx THEN [td[i] EXCEPT !.status = "Closed"] ELSE td[i]]

\* Points of _remove_share_permission's try block at which a host call may raise
NoFault == "none"
RevokeFaults == {"share_remove", "get_all", "todo_save"}
\* Host calls of _share_and_assign that may raise
GrantFaults == {"share_add", "exists", "insert"}

----------------------------------------------------------------------------
(* The helpers of the class, as functions of the stores.  Each gives the
   stores it leaves and the exception that leaves it, None when it returns. *)

\* Mutant: the ToDo is created without the existence check
share_and_assign_no_check(sh, td, user, task_description, permissions, fault) ==
    IF user = None THEN [shares |-> sh, todos |-> td, error |-> None]
    ELSE [shares |-> ShareAdd(sh, user,
                              Get(permissions, "read", 0),
                              Get(permissions, "write", 0),
                              Get(permissions, "submit", 0),
                              Get(permissions, "share", 0)),
          todos |-> Append(td, [allocated_to |-> user, status |-> "Open"]),
          error |-> None]

\* Mutant: an exception of the grant step is caught and ignored
share_and_assign_swallow(sh, td, user, task_description, permissions, fault) ==
    IF user = None THEN [shares |-> sh, todos |-> td, error |-> None]
    ELSE IF fault = "share_add" THEN [shares |-> sh, todos |-> td, error |-> None]
    ELSE LET added == ShareAdd(sh, user,
                               Get(permissions, "read", 0),
                               Get(permissions, "write", 0),
                               Get(permissions, "submit", 0),
                               Get(permissions, "share", 0))
             existing_todo == OpenTodos(td, user) # {}
         IN  IF fault = "exists" \/ existing_todo \/ fault = "insert"
             THEN [shares |-> added, todos |-> td, error |-> None]
             ELSE [shares |-> added,
                   todos |-> Append(td, [allocated_to |-> user, status |-> "Open"]),
                   error |-> None]

\* Mutant: a user that is None is granted to like any other
share_and_assign_no_guard(sh, td, user, task_description, permissions, fault) ==
    LET added == ShareAdd(sh, user,
                          Get(permissions, "read", 0),
                          Get(permissions, "write", 0),
                          Get(permissions, "submit", 0),
                          Get(permissions, "share", 0))
    IN  IF OpenTodos(td, user) = {}
        THEN [shares |-> added,
              todos |-> Append(td, [allocated_to |-> user, status |-> "Open"]),
              error |-> None]
        ELSE [shares |-> added, todos |-> td, error |-> None]

\* _share_and_assign: grant the permissions, create an Open ToDo unless one
\* exists.  No exception is caught: a host call that raises (fault) ends the
\* helper with what was done before it.
share_and_assign(sh, td, user, task_description, permissions, fault) ==
    IF user = None THEN [shares |-> sh, todos |-> td, error |-> None]
    ELSE IF fault = "share_add"
    THEN [shares |-> sh, todos |-> td, error |-> "Exception"]
    ELSE LET added == ShareAdd(sh, user,
                               Get(permissions, "read", 0),
                               Get(permissions, "write", 0),
                               Get(permissions, "submit", 0),
                               Get(permissions, "share", 0))
             existing_todo == OpenTodos(td, user) # {}
         IN  IF fault = "exists"
             THEN [shares |-> added, todos |-> td, error |-> "Exception"]
             ELSE IF ~existing_todo
             THEN IF fault = "insert"
                  THEN [shares |-> added, todos |-> td, error |-> "Exception"]
                  ELSE [shares |-> added,
                        todos |-> Append(td, [allocated_to |-> user, status |-> "Open"]),
                        error |-> None]
             ELSE [shares |-> added, todos |-> td, error |-> None]

\* the try block of _remove_share_permission: remove the share, then close the
\* user's Open ToDos one by one.  fault names the host call that raises, n how
\* many ToDo saves succeed before the raising one; what was done before the
\* exception stays done.
TryRemove(sh, td, user, fault, n) ==
    IF fault = "share_remove"
    THEN [shares |-> sh, todos |-> td, raised |-> TRUE]
    ELSE IF fault = "get_all"
    THEN [shares |-> ShareRemove(sh, user), todos |-> td, raised |-> TRUE]
    ELSE LET open_todos == OpenTodos(td, user)
         IN  IF fault = "todo_save" /\ n < Cardinality(open_todos)
             THEN [shares |-> ShareRemove(sh, user),
                   todos |-> CloseTodos(td, FirstN(open_todos, n)),
                   raised |-> TRUE]
             ELSE [shares |-> ShareRemove(sh, user),
                   todos |-> CloseTodos(td, open_todos),
                   raised |-> FALSE]

\* Mutant: the share is removed and the Open ToDos are left open
remove_share_permission_keep_todos(sh, td, user, fault, n) ==
    IF user = None THEN [shares |-> sh, todos |-> td, error |-> None]
    ELSE LET tried == TryRemove(sh, td, user, fault, n)
         IN  [shares |-> tried.shares, todos |-> td, error |-> None]

\* Mutant: the exception of the try block is not caught
remove_share_permission_raises(sh, td, user, fault, n) ==
    IF user = None THEN [shares |-> sh, todos |-> td, error |-> None]
    ELSE LET tried == TryRemove(sh, td, user, fault, n)
         IN  [shares |-> tried.shares, todos |-> tried.todos,
              error |-> IF tried.raised THEN "Exception" ELSE None]

\* _remove_share_permission: the try block, with "except Exception: pass"
remove_share_permission(sh, td, user, fault, n) ==
    IF user = None THEN [shares |-> sh, todos |-> td, error |-> None]
    ELSE LET tried == TryRemove(sh, td, user, fault, n)
         IN  [shares |-> tried.shares, todos |-> tried.todos, error |-> None]

\* Mutant: the comparison of the guard is inverted
StateUnchanged_inverted(d, p) == p # Unset /\ p # d.workflow_state

\* the guard of _handle_workflow: the state did not change in this save
StateUnchanged(d, p) == p # Unset /\ p = d.workflow_state

\* WORKFLOW_CONFIG.get(self.workflow_state) found a rule
HasConfig(d) == d.workflow_state \in DOMAIN WORKFLOW_CONFIG

\* self.get(prev_approver_field) of the state's rule, None when there is none
PrevUser(d) ==
    LET f == Get(WORKFLOW_CONFIG[d.workflow_state], "previous_approver_field", None)
    IN  IF f = None THEN None ELSE d[f]

\* self.get(next_approver_field) of the state's rule, None when there is none
NextUser(d) ==
    LET f == Get(WORKFLOW_CONFIG[d.workflow_state], "approver_field", None)
    IN  IF f = None THEN None ELSE d[f]

\* Mutant: a revoke step that failed ends the dispatch before the grant step
DispatchBody_stop_on_failure(d, sh, td, fault, n) ==
    LET state_config == WORKFLOW_CONFIG[d.workflow_state]
        revoked == remove_share_permission(sh, td, PrevUser(d), fault, n)
        failed == PrevUser(d) # None
                      /\ TryRemove(sh, td, PrevUser(d), fault, n).raised
    IN  IF revoked.error # None \/ failed THEN revoked
        ELSE IF Get(state_config, "approver_field", None) # None
        THEN share_and_assign(revoked.shares, revoked.todos, NextUser(d),
                              Get(state_config, "task_description", None),
                              Get(state_config, "permissions", DefaultPermissions),
                              fault)
        ELSE revoked

\* Mutant: the grant to the next approver is made before the revoke
DispatchBody_grant_first(d, sh, td, fault, n) ==
    LET state_config == WORKFLOW_CONFIG[d.workflow_state]
        granted == IF Get(state_config, "approver_field", None) # None
                   THEN share_and_assign(sh, td, NextUser(d),
                              Get(state_config, "task_description", None),
                              Get(state_config, "permissions", DefaultPermissions),
                              fault)
                   ELSE [shares |-> sh, todos |-> td, error |-> None]
    IN  IF granted.error # None THEN granted
        ELSE remove_share_permission(granted.shares, granted.todos,
                                     PrevUser(d), fault, n)

\* the body of _handle_workflow after its two early returns: revoke the
\* previous approver, then grant to the next; an exception ends it
DispatchBody(d, sh, td, fault, n) ==
    LET state_config == WORKFLOW_CONFIG[d.workflow_state]
        revoked == remove_share_permission(sh, td, PrevUser(d), fault, n)
    IN  IF revoked.error # None THEN revoked
        ELSE IF Get(state_config, "approver_field", None) # None
        THEN share_and_assign(revoked.shares, revoked.todos, NextUser(d),
                              Get(state_config, "task_description", None),
                              Get(state_config, "permissions", DefaultPermissions),
                              fault)
        ELSE revoked

\* Mutant: a state without a rule is handled by the rule of the first state
handle_workflow_default_rule(d, p, sh, td, fault, n) ==
    IF StateUnchanged(d, p) THEN [shares |-> sh, todos |-> td, error |-> None]
    ELSE IF ~HasConfig(d)
    THEN DispatchBody([d EXCEPT !.workflow_state = PDC], sh, td, fault, n)
    ELSE DispatchBody(d, sh, td, fault, n)

\* _handle_workflow
handle_workflow(d, p, sh, td, fault, n) ==
    IF StateUnchanged(d, p) THEN [shares |-> sh, todos |-> td, error |-> None]
    ELSE IF ~HasConfig(d) THEN [shares |-> sh, todos |-> td, error |-> None]
    ELSE DispatchBody(d, sh, td, fault, n)

\* the call that fault names is made in this run, so it can raise: the revoke
\* step runs for a non-empty previous approver, and the (n+1)-th ToDo save
\* exists; the grant step runs for a non-empty next approver, and the insert
\* is reached when no Open ToDo exists
FaultPossible(d, p, td, fault, n) ==
    \/ fault = NoFault /\ n = 0
    \/ /\ fault \in RevokeFaults
       /\ ~StateUnchanged(d, p)
       /\ HasConfig(d)
       /\ PrevUser(d) # None
       /\ IF fault = "todo_save"
          THEN n < Cardinality(OpenTodos(td, PrevUser(d)))
          ELSE n = 0
    \/ /\ fault \in GrantFaults
       /\ n = 0
       /\ ~StateUnchanged(d, p)
       /\ HasConfig(d)
       /\ NextUser(d) # None
       /\ fault = "insert"
            => OpenTodos(remove_share_permission({}, td, PrevUser(d), fault, n).todos,
                         NextUser(d)) = {}

----------------------------------------------------------------------------
(* The state machine *)

\* no document in memory (between two saves)
NoDoc == [workflow_state |-> None, librarian |-> None, hod |-> None,
          library_convener |-> None]

NoSeen == [ran |-> FALSE, fault |-> NoFault, shares |-> {}, todos |-> <<>>]

\* frappe.get_single("Library Settings") raises DoesNotExistError
NoSettings == [exists |-> FALSE, default_librarian |-> None,
               default_library_convener |-> None]

\* what frappe.get_single("Library Settings") can give a save
SettingsValues ==
    {NoSettings}
    \cup [exists : {TRUE}, default_librarian : MaybeUser,
          default_library_convener : MaybeUser]

\* no deployment record is kept: each save draws its approvers afresh
NoSetup == [librarian |-> None, hod |-> None, library_convener |-> None]

\* the requests that may run _share_and_assign at the same time
Procs == {"p1", "p2"}

\* a request that is not inside _share_and_assign
ProcIdle == [pc |-> "idle", workflow_state |-> None, user |-> None,
             existing_todo |-> FALSE]

NoProcs == [p \in Procs |-> ProcIdle]

Init ==
    /\ doc = NoDoc
    /\ prev = Unset
    /\ settings = NoSettings
    /\ db_workflow_state = None
    /\ is_new = TRUE
    /\ shares = {}
    /\ todos = <<>>
    /\ pc = "idle"
    /\ result = "none"
    /\ last = NoSeen
    /\ setup = NoSetup
    /\ holder = None
    /\ procs = NoProcs

\* A request builds a document instance with workflow_state s and hod h and
\* saves it while the settings record reads st: a submit for a new document,
\* an update after submit afterwards.  librarian and library_convener are not
\* read before before_validate sets them.  A save is taken only while there
\* is room for the ToDo row it may add.
StartSave(s, h, st) ==
    /\ pc = "idle"
    /\ Len(todos) < MaxTodos
    /\ doc' = [NoDoc EXCEPT !.workflow_state = s, !.hod = h]
    /\ settings' = st
    /\ pc' = "before_validate"
    /\ UNCHANGED <<prev, db_workflow_state, is_new, shares, todos, result, last>>
    /\ UNCHANGED env

\* Mutant: a missing settings record is ignored and the save goes on
before_validate_no_throw ==
    /\ pc = "before_validate"
    /\ doc' = IF settings.exists
              THEN [doc EXCEPT !.librarian = settings.default_librarian,
                               !.library_convener = settings.default_library_convener]
              ELSE doc
    /\ pc' = "before_save"
    /\ UNCHANGED <<prev, settings, db_workflow_state, is_new, shares, todos, result, last>>
    /\ UNCHANGED env

\* before_validate: the default approvers from the settings record, or
\* frappe.throw, which aborts the save
before_validate ==
    /\ pc = "before_validate"
    /\ IF settings.exists
       THEN /\ doc' = [doc EXCEPT !.librarian = settings.default_librarian,
                                  !.library_convener = settings.default_library_convener]
            /\ pc' = "before_save"
            /\ UNCHANGED result
       ELSE /\ pc' = "aborted"
            /\ result' = "Please configure 'Library Settings' first."
            /\ UNCHANGED doc
    /\ UNCHANGED <<prev, settings, db_workflow_state, is_new, shares, todos, last>>
    /\ UNCHANGED env

\* before_save: the snapshot of the persisted workflow state
before_save ==
    /\ pc = "before_save"
    /\ prev' = IF ~is_new THEN db_workflow_state ELSE None
    /\ pc' = "post_save"
    /\ UNCHANGED <<doc, settings, db_workflow_state, is_new, shares, todos, result, last>>
    /\ UNCHANGED env

\* the effect of either post-save hook: _handle_workflow on the stores; an
\* exception leaving it aborts the save.  The host may reach the hook without
\* having run before_save on this instance.
RunHandleWorkflow(fault, n) ==
    LET out == handle_workflow(doc, prev, shares, todos, fault, n)
    IN  /\ pc \in {"before_save", "post_save"}
        /\ FaultPossible(doc, prev, todos, fault, n)
        /\ shares' = out.shares
        /\ todos' = out.todos
        /\ last' = [ran |-> TRUE, fault |-> fault, shares |-> shares, todos |-> todos]
        /\ pc' = IF out.error = None THEN "done" ELSE "aborted"
        /\ result' = IF out.error = None THEN "ok" ELSE out.error
        /\ UNCHANGED <<doc, prev, settings, db_workflow_state, is_new>>
        /\ UNCHANGED env

on_submit(fault, n) ==
    /\ is_new
    /\ RunHandleWorkflow(fault, n)

on_update_after_submit(fault, n) ==
    /\ ~is_new
    /\ RunHandleWorkflow(fault, n)

\* the host's transaction: what an aborted save leaves of the stores is what
\* the save found
RolledBack ==
    IF last.ran THEN [shares |-> last.shares, todos |-> last.todos]
    ELSE [shares |-> shares, todos |-> todos]

\* the request ends: a finished save is committed, an aborted one is rolled
\* back, and the document instance is dropped
Commit ==
    /\ pc \in {"done", "aborted"}
    /\ IF pc = "done"
       THEN /\ db_workflow_state' = doc.workflow_state
            /\ is_new' = FALSE
            /\ UNCHANGED <<shares, todos>>
       ELSE /\ shares' = RolledBack.shares
            /\ todos' = RolledBack.todos
            /\ UNCHANGED <<db_workflow_state, is_new>>
    /\ doc' = NoDoc
    /\ prev' = Unset
    /\ settings' = NoSettings
    /\ pc' = "idle"
    /\ result' = "none"
    /\ last' = NoSeen

EndRequest ==
    /\ Commit
    /\ UNCHANGED env

Faults == RevokeFaults \cup {NoFault}

Next ==
    \/ \E s \in WorkflowStates, h \in MaybeUser, st \in SettingsValues : StartSave(s, h, st)
    \/ before_validate
    \/ before_save
    \/ \E f \in Faults, n \in 0..(MaxTodos - 1) : on_submit(f, n)
    \/ \E f \in Faults, n \in 0..(MaxTodos - 1) : on_update_after_submit(f, n)
    \/ EndRequest

Spec == Init /\ [][Next]_vars

\* The same lifecycle with the host calls of the grant step raising
NextGrantFault ==
    \/ \E s \in WorkflowStates, h \in MaybeUser, st \in SettingsValues : StartSave(s, h, st)
    \/ before_validate
    \/ before_save
    \/ \E f \in GrantFaults \cup {NoFault} : on_submit(f, 0)
    \/ \E f \in GrantFaults \cup {NoFault} : on_update_after_submit(f, 0)
    \/ EndRequest

SpecGrantFault == Init /\ [][NextGrantFault]_vars

----------------------------------------------------------------------------
(* The approval chain of one document under a deployment that keeps its
   approvers between saves *)

ChainUsers == {"u1", "u2", "u3"}

\* librarian, hod and library_convener non-empty and pairwise distinct
ChainSetups ==
    {a \in [librarian : ChainUsers, hod : ChainUsers, library_convener : ChainUsers] :
        a.librarian # a.hod /\ a.hod # a.library_convener
            /\ a.librarian # a.library_convener}

InitChain ==
    /\ doc = NoDoc
    /\ prev = Unset
    /\ settings = NoSettings
    /\ db_workflow_state = None
    /\ is_new = TRUE
    /\ shares = {}
    /\ todos = <<>>
    /\ pc = "idle"
    /\ result = "none"
    /\ last = NoSeen
    /\ setup \in ChainSetups
    /\ holder = None
    /\ procs = NoProcs

\* the workflow states a save may carry when the chain is followed in order:
\* the first state for a new document, else the persisted state or its
\* successor; the terminal states have no successor
InOrderTargets ==
    IF is_new THEN {PDC}
    ELSE IF db_workflow_state = PDC THEN {PDC, PHOD}
    ELSE IF db_workflow_state = PHOD THEN {PHOD, PLC}
    ELSE IF db_workflow_state = PLC THEN {PLC, Approved, Rejected}
    ELSE {db_workflow_state}

\* a rejection before the library convener's turn
EarlyTargets ==
    IF ~is_new /\ db_workflow_state \in {PDC, PHOD} THEN {Rejected} ELSE {}

\* A request saves the document with workflow_state s; hod is the stored one
\* and the settings record reads as the deployment has it.
ChainSave(s) ==
    /\ pc = "idle"
    /\ doc' = [NoDoc EXCEPT !.workflow_state = s, !.hod = setup.hod]
    /\ settings' = [exists |-> TRUE, default_librarian |-> setup.librarian,
                    default_library_convener |-> setup.library_convener]
    /\ pc' = "before_validate"
    /\ UNCHANGED <<prev, db_workflow_state, is_new, shares, todos, result, last>>
    /\ UNCHANGED env

NextChain ==
    \/ \E s \in InOrderTargets \cup EarlyTargets : ChainSave(s)
    \/ before_validate
    \/ before_save
    \/ on_submit(NoFault, 0)
    \/ on_update_after_submit(NoFault, 0)
    \/ EndRequest

SpecChain == InitChain /\ [][NextChain]_vars

\* Library Settings or the document's hod is edited between two saves
ChangeSetup(a) ==
    /\ pc = "idle"
    /\ a # setup
    /\ setup' = a
    /\ UNCHANGED <<doc, prev, settings, db_workflow_state, is_new, shares, todos,
                   pc, result, last, holder, procs>>

\* the request ends; a dispatch that was committed makes the user it granted
\* the holder of the state entered
ChainEnd ==
    /\ Commit
    /\ holder' = IF pc = "done" /\ last.ran /\ ~StateUnchanged(doc, prev)
                        /\ HasConfig(doc)
                 THEN NextUser(doc) ELSE holder
    /\ UNCHANGED <<setup, procs>>

\* the post-save hooks as the host calls them after before_save
SavedThenSubmit == pc = "post_save" /\ on_submit(NoFault, 0)

SavedThenUpdate == pc = "post_save" /\ on_update_after_submit(NoFault, 0)

NextChange ==
    \/ \E a \in [librarian : ChainUsers, hod : ChainUsers,
                  library_convener : ChainUsers] : ChangeSetup(a)
    \/ \E s \in InOrderTargets : ChainSave(s)
    \/ before_validate
    \/ before_save
    \/ SavedThenSubmit
    \/ SavedThenUpdate
    \/ ChainEnd

SpecChange == InitChain /\ [][NextChange]_vars

----------------------------------------------------------------------------
(* Two requests inside _share_and_assign for the same document: each host
   call is a step of its own, and the steps of the two interleave *)

\* the variables of the save lifecycle, which the steps below leave alone
lifecycle == <<doc, prev, settings, db_workflow_state, is_new, pc, result, last,
               setup, holder>>

\* request p enters _share_and_assign for the approver user of state s
EnterShareAndAssign(p, s, user) ==
    /\ procs[p].pc = "idle"
    /\ user # None
    /\ Get(WORKFLOW_CONFIG[s], "approver_field", None) # None
    /\ procs' = [procs EXCEPT ![p] = [pc |-> "share_add", workflow_state |-> s,
                                      user |-> user, existing_todo |-> FALSE]]
    /\ UNCHANGED <<shares, todos>>
    /\ UNCHANGED lifecycle

\* frappe.share.add with the permissions of the state's rule
StepShareAdd(p) ==
    LET permissions == Get(WORKFLOW_CONFIG[procs[p].workflow_state],
                           "permissions", DefaultPermissions)
    IN  /\ procs[p].pc = "share_add"
        /\ shares' = ShareAdd(shares, procs[p].user,
                              Get(permissions, "read", 0),
                              Get(permissions, "write", 0),
                              Get(permissions, "submit", 0),
                              Get(permissions, "share", 0))
        /\ procs' = [procs EXCEPT ![p].pc = "exists"]
        /\ UNCHANGED todos
        /\ UNCHANGED lifecycle

\* existing_todo = frappe.db.exists("ToDo", {..., "status": "Open"})
StepExists(p) ==
    /\ procs[p].pc = "exists"
    /\ procs' = [procs EXCEPT ![p].existing_todo = OpenTodos(todos, procs[p].user) # {},
                              ![p].pc = "insert"]
    /\ UNCHANGED <<shares, todos>>
    /\ UNCHANGED lifecycle

\* if not existing_todo: insert the ToDo; the request leaves the helper
StepInsert(p) ==
    /\ procs[p].pc = "insert"
    /\ todos' = IF ~procs[p].existing_todo
                THEN Append(todos, [allocated_to |-> procs[p].user, status |-> "Open"])
                ELSE todos
    /\ procs' = [procs EXCEPT ![p] = ProcIdle]
    /\ UNCHANGED shares
    /\ UNCHANGED lifecycle

NextRace ==
    \/ \E p \in Procs, s \in {PDC, PHOD, PLC}, user \in Users :
            EnterShareAndAssign(p, s, user)
    \/ \E p \in Procs : StepShareAdd(p)
    \/ \E p \in Procs : StepExists(p)
    \/ \E p \in Procs : StepInsert(p)

SpecRace == Init /\ [][NextRace]_vars

----------------------------------------------------------------------------
(* Properties.  They are stated on the state a post-save hook leaves
   (pc = "done"; an exception leaving the hook gives pc = "aborted"), where
   doc and prev are what the hook saw, last.shares and last.todos the stores
   as it found them, and shares and todos the stores as it left them. *)

PendingStates == {"Pending for Duplication Check", "Pending for HOD Approval",
                  "Pending for Library Convener Approval"}
TerminalStates == {"Approved", "Rejected"}

\* a post-save hook ran in this save
HookRan == pc \in {"done", "aborted"} /\ last.ran

\* the hook saw a workflow_state that differs from the snapshot, or no snapshot
StateChanged == ~(prev # Unset /\ prev = doc.workflow_state)

\* the hook returned after dispatching for a changed state among S
Dispatched(S) == pc = "done" /\ last.ran /\ StateChanged /\ doc.workflow_state \in S

\* the hook left the stores as it found them
StoresUnchanged == shares = last.shares /\ todos = last.todos

GrantsOf(sh, u) == {g \in sh : g.user = u}

Grant(u, r, w, s, x) == [user |-> u, read |-> r, write |-> w, submit |-> s, share |-> x]

\* the rows of a user, by position, with their statuses
TasksOf(td, u) ==
    [i \in {j \in DOMAIN td : td[j].allocated_to = u} |-> td[i].status]

\* the users who lost their grant or had an Open ToDo closed in the hook
RevokedUsers ==
    {v \in Users :
        \/ GrantsOf(last.shares, v) # {} /\ GrantsOf(shares, v) = {}
        \/ \E i \in DOMAIN last.todos :
              /\ last.todos[i].allocated_to = v
              /\ last.todos[i].status = "Open"
              /\ todos[i].status = "Closed"}

C3_OneOpenTodoPerUser ==
    \A u \in Users : Cardinality(OpenTodos(todos, u)) <= 1

\* C3 witness: a dispatch granted to a user whose Open ToDo was still there
\* after the revoke step, so the existence check kept it from creating one
C3_Witness ==
    /\ Dispatched(PendingStates)
    /\ NextUser(doc) # None
    /\ NextUser(doc) # PrevUser(doc)
    /\ OpenTodos(last.todos, NextUser(doc)) # {}
    /\ GrantsOf(shares, NextUser(doc)) # {}
    /\ Len(todos) = Len(last.todos)

\* C4: a hook that runs with workflow_state equal to the snapshot before_save
\* took in this save leaves the grants and the ToDos as they were.
C4_UnchangedStateNoEffect ==
    (pc = "done" /\ last.ran /\ prev # Unset /\ prev = doc.workflow_state)
    => StoresUnchanged

\* C4 witness: such a hook ran where the dispatch body would have changed the
\* stores
C4_Witness ==
    /\ pc = "done" /\ last.ran
    /\ prev # Unset /\ prev = doc.workflow_state
    /\ doc.workflow_state \in DOMAIN WORKFLOW_CONFIG
    /\ LET would == DispatchBody(doc, last.shares, last.todos, NoFault, 0)
       IN  would.shares # last.shares /\ would.todos # last.todos

\* C5: a hook that runs with a workflow_state that is no key of the
\* configuration (unset included) leaves the grants and the ToDos as they
\* were, whatever the snapshot and the approver fields are.
C5_NoRuleNoEffect ==
    (pc = "done" /\ last.ran
     /\ doc.workflow_state \notin (PendingStates \cup TerminalStates))
    => StoresUnchanged

\* C5 witness: a hook ran for a changed, unknown state with all approvers set,
\* grants and an Open ToDo in the stores
C5_Witness ==
    /\ pc = "done" /\ last.ran
    /\ doc.workflow_state = Draft
    /\ StateChanged
    /\ doc.librarian # None /\ doc.hod # None /\ doc.library_convener # None
    /\ shares # {}
    /\ \E u \in Users : OpenTodos(todos, u) # {}

\* what a second run of the dispatch body, right after the hook, would leave
SecondRun == DispatchBody(doc, shares, todos, NoFault, 0)

C7_RevokeWithoutGrant ==
    (/\ HookRan
     /\ StateChanged
     /\ doc.workflow_state \in PendingStates \cup TerminalStates
     /\ PrevUser(doc) # None
     /\ GrantsOf(last.shares, PrevUser(doc)) = {})
    => /\ pc = "done"
       /\ result = "ok"
       /\ \A v \in Users \ {PrevUser(doc), NextUser(doc)} :
             /\ GrantsOf(shares, v) = GrantsOf(last.shares, v)
             /\ TasksOf(todos, v) = TasksOf(last.todos, v)

\* C7 witness: a dispatch into a terminal state revoked a user without a
\* grant, frappe.share.remove raising, while another user held a grant and an
\* Open ToDo
C7_Witness ==
    /\ Dispatched(TerminalStates)
    /\ last.fault = "share_remove"
    /\ PrevUser(doc) # None
    /\ GrantsOf(last.shares, PrevUser(doc)) = {}
    /\ \E v \in Users \ {PrevUser(doc)} :
          GrantsOf(last.shares, v) # {} /\ OpenTodos(last.todos, v) # {}

\* C8: after a dispatch into a pending state the non-empty next approver holds
\* exactly the grant of the states table (librarian read, write, submit, share;
\* hod and library_convener read, submit, share without write), and the only
\* user revoked is the previous approver of the table: nobody, librarian, hod,
\* who (no host call raising, and not being the next approver) is left without
\* grant and without Open ToDo.
C8_StatesTable ==
    /\ Dispatched({"Pending for Duplication Check"})
          => /\ doc.librarian # None
                  => GrantsOf(shares, doc.librarian) = {Grant(doc.librarian, 1, 1, 1, 1)}
             /\ RevokedUsers = {}
    /\ Dispatched({"Pending for HOD Approval"})
          => /\ doc.hod # None
                  => GrantsOf(shares, doc.hod) = {Grant(doc.hod, 1, 0, 1, 1)}
             /\ RevokedUsers \subseteq {doc.librarian}
             /\ (last.fault = NoFault /\ doc.librarian # doc.hod)
                  => /\ GrantsOf(shares, doc.librarian) = {}
                     /\ OpenTodos(todos, doc.librarian) = {}
    /\ Dispatched({"Pending for Library Convener Approval"})
          => /\ doc.library_convener # None
                  => GrantsOf(shares, doc.library_convener)
                         = {Grant(doc.library_convener, 1, 0, 1, 1)}
             /\ RevokedUsers \subseteq {doc.hod}
             /\ (last.fault = NoFault /\ doc.hod # doc.library_convener)
                  => /\ GrantsOf(shares, doc.hod) = {}
                     /\ OpenTodos(todos, doc.hod) = {}

\* C8 witness: a dispatch into "Pending for Library Convener Approval" took
\* hod's grant and Open ToDo and granted to a library_convener who had held
\* the librarian's grant
C8_Witness ==
    /\ Dispatched({"Pending for Library Convener Approval"})
    /\ last.fault = NoFault
    /\ doc.hod # None /\ doc.library_convener # None
    /\ doc.hod # doc.library_convener
    /\ RevokedUsers = {doc.hod}
    /\ GrantsOf(last.shares, doc.library_convener)
           = {Grant(doc.library_convener, 1, 1, 1, 1)}

ConfigurationMissing == "Please configure 'Library Settings' first."

\* C9: before_validate, when the settings record exists, sets librarian and
\* library_convener to the record's defaults and leaves hod and workflow_state
\* as they were; when it does not exist, the save is aborted with the
\* Configuration Missing message, and an aborted save changes no grant and no
\* ToDo and runs no post-save hook.
C9_BeforeValidate ==
    [][/\ (pc = "before_validate" /\ pc' # pc)
            => IF settings.exists
               THEN /\ pc' = "before_save"
                    /\ doc' = [workflow_state |-> doc.workflow_state,
                               librarian |-> settings.default_librarian,
                               hod |-> doc.hod,
                               library_convener |-> settings.default_library_convener]
                    /\ shares' = shares /\ todos' = todos
               ELSE /\ pc' = "aborted"
                    /\ result' = ConfigurationMissing
                    /\ shares' = shares /\ todos' = todos
       /\ (pc = "aborted" /\ result = ConfigurationMissing)
            => /\ pc' = "idle"
               /\ shares' = shares /\ todos' = todos
               /\ db_workflow_state' = db_workflow_state
      ]_vars

\* C9 witness: a save of a submitted document into a new pending state, with
\* grants in place, was aborted for the missing settings record
C9_Witness ==
    /\ pc = "aborted"
    /\ result = ConfigurationMissing
    /\ ~settings.exists
    /\ ~is_new
    /\ doc.workflow_state \in PendingStates
    /\ doc.workflow_state # db_workflow_state
    /\ doc.hod # None
    /\ shares # {}

\* C10: when a host call of the revoke step raises, the hook still ends
\* without error, and the grant step has run: a non-empty next approver of a
\* pending state holds a grant and has an Open ToDo.
C10_RevokeFailureSwallowed ==
    (HookRan /\ last.fault \in RevokeFaults)
    => /\ pc = "done"
       /\ result = "ok"
       /\ (doc.workflow_state \in PendingStates /\ NextUser(doc) # None)
            => /\ GrantsOf(shares, NextUser(doc)) # {}
               /\ OpenTodos(todos, NextUser(doc)) # {}

\* C10 witness: the revoke step failed for a previous approver holding a grant
\* and an Open ToDo, and the next approver, who had neither, got both
C10_Witness ==
    /\ Dispatched(PendingStates)
    /\ last.fault \in RevokeFaults
    /\ PrevUser(doc) # None /\ NextUser(doc) # None
    /\ PrevUser(doc) # NextUser(doc)
    /\ GrantsOf(last.shares, PrevUser(doc)) # {}
    /\ OpenTodos(last.todos, PrevUser(doc)) # {}
    /\ GrantsOf(last.shares, NextUser(doc)) = {}
    /\ OpenTodos(last.todos, NextUser(doc)) = {}
    /\ GrantsOf(shares, NextUser(doc)) # {}
    /\ OpenTodos(todos, NextUser(doc)) # {}

\* C11: a host call of the grant step that raises makes the hook end in an
\* error that aborts the save, whatever the hook did before it; the aborted
\* save commits nothing: when the request has ended, the grants and the ToDos
\* are those the hook found, revocation and partial grant undone, and the
\* persisted workflow_state is the old one.
C11_GrantFailureAborts ==
    [][/\ (HookRan' /\ last'.fault \in GrantFaults)
            => /\ pc' = "aborted"
               /\ result' = "Exception"
       /\ (HookRan /\ last.fault \in GrantFaults)
            => /\ pc' = "idle"
               /\ shares' = last.shares
               /\ todos' = last.todos
               /\ db_workflow_state' = db_workflow_state
               /\ is_new' = is_new
      ]_vars

\* C11 witness: the ToDo insert raised after the hook had taken the previous
\* approver's grant and Open ToDo and had added the next approver's grant
C11_Witness ==
    /\ pc = "aborted"
    /\ last.ran
    /\ last.fault = "insert"
    /\ PrevUser(doc) # None /\ NextUser(doc) # None
    /\ PrevUser(doc) # NextUser(doc)
    /\ GrantsOf(last.shares, PrevUser(doc)) # {}
    /\ GrantsOf(shares, PrevUser(doc)) = {}
    /\ OpenTodos(last.todos, PrevUser(doc)) # {}
    /\ OpenTodos(todos, PrevUser(doc)) = {}
    /\ GrantsOf(last.shares, NextUser(doc)) = {}
    /\ GrantsOf(shares, NextUser(doc)) # {}

\* C12: the revoke comes before the grant: after a dispatch into a pending
\* state whose previous-approver field and next-approver field hold the same
\* user (librarian = hod into "Pending for HOD Approval", hod =
\* library_convener into "Pending for Library Convener Approval"; no host
\* call raising), that user holds exactly the new state's grant and has
\* exactly one Open ToDo, and every ToDo the user had Open before is Closed.
C12_SameUserRevokeThenGrant ==
    (/\ Dispatched({"Pending for HOD Approval",
                    "Pending for Library Convener Approval"})
     /\ last.fault = NoFault
     /\ PrevUser(doc) # None
     /\ PrevUser(doc) = NextUser(doc))
    => /\ GrantsOf(shares, NextUser(doc))
            = {Grant(NextUser(doc), 1, 0, 1, 1)}
       /\ Cardinality(OpenTodos(todos, NextUser(doc))) = 1
       /\ \A i \in OpenTodos(last.todos, NextUser(doc)) : todos[i].status = "Closed"
       /\ OpenTodos(todos, NextUser(doc)) = {Len(todos)}
       /\ Len(todos) = Len(last.todos) + 1

\* C12 witness: hod = library_convener entering "Pending for Library Convener
\* Approval" while holding a grant and an Open ToDo
C12_Witness ==
    /\ Dispatched({"Pending for Library Convener Approval"})
    /\ last.fault = NoFault
    /\ doc.hod # None
    /\ doc.hod = doc.library_convener
    /\ GrantsOf(last.shares, doc.hod) # {}
    /\ OpenTodos(last.todos, doc.hod) # {}
    /\ Cardinality(OpenTodos(todos, doc.hod)) = 1

\* C13: empty approver fields.  After a dispatch for a state with a rule (no
\* host call raising): if the rule names a next-approver field and its value
\* is empty, no grant and no ToDo is created, while a non-empty previous
\* approver is still revoked; if the rule names a previous-approver field and
\* its value is empty, every grant stays except the next approver's, which is
\* replaced, and every ToDo row stays as it was, while a non-empty next
\* approver is still granted and has an Open ToDo.
C13_EmptyApproverFields ==
    (/\ Dispatched(PendingStates \cup TerminalStates)
     /\ last.fault = NoFault)
    => /\ (/\ Get(WORKFLOW_CONFIG[doc.workflow_state], "approver_field", None) # None
           /\ NextUser(doc) = None)
          => /\ shares \subseteq last.shares
             /\ Len(todos) = Len(last.todos)
             /\ PrevUser(doc) # None
                  => /\ GrantsOf(shares, PrevUser(doc)) = {}
                     /\ OpenTodos(todos, PrevUser(doc)) = {}
       /\ (/\ Get(WORKFLOW_CONFIG[doc.workflow_state],
                  "previous_approver_field", None) # None
           /\ PrevUser(doc) = None)
          => /\ \A g \in last.shares : g \in shares \/ g.user = NextUser(doc)
             /\ \A i \in DOMAIN last.todos : todos[i] = last.todos[i]
             /\ NextUser(doc) # None
                  => /\ GrantsOf(shares, NextUser(doc)) # {}
                     /\ OpenTodos(todos, NextUser(doc)) # {}

\* C13 witness: a dispatch into "Pending for HOD Approval" with hod empty that
\* revoked the librarian, after one with the librarian empty that granted hod
C13_Witness ==
    /\ Dispatched({"Pending for HOD Approval"})
    /\ last.fault = NoFault
    /\ doc.hod = None
    /\ doc.librarian # None
    /\ GrantsOf(last.shares, doc.librarian) # {}
    /\ OpenTodos(last.todos, doc.librarian) # {}
    /\ GrantsOf(shares, doc.librarian) = {}
    /\ \E u \in Users : Grant(u, 1, 0, 1, 1) \in shares

\* C14: ToDos are closed, never deleted or reopened: in every step the rows
\* that exist stay, with their user, a row's status changes only from Open to
\* Closed, and a Closed row stays Closed.
C14_TodosOnlyCloseAndGrow ==
    [][/\ Len(todos') >= Len(todos)
       /\ \A i \in DOMAIN todos :
             /\ todos'[i].allocated_to = todos[i].allocated_to
             /\ todos'[i].status # todos[i].status
                  => todos[i].status = "Open" /\ todos'[i].status = "Closed"
             /\ todos[i].status = "Closed" => todos'[i].status = "Closed"
      ]_vars

\* C14 witness: a dispatch that closed an Open ToDo and created one, beside a
\* ToDo that was Closed before and still is
C14_Witness ==
    /\ Dispatched(PendingStates)
    /\ Len(todos) > Len(last.todos)
    /\ \E i, j \in DOMAIN last.todos :
          /\ last.todos[i].status = "Closed" /\ todos[i].status = "Closed"
          /\ last.todos[j].status = "Open" /\ todos[j].status = "Closed"

\* the dispatch just done follows the chain: the first state for a new
\* document, else the persisted state again or its successor
InOrderStep ==
    \/ is_new /\ doc.workflow_state = PDC
    \/ ~is_new /\ db_workflow_state = PDC /\ doc.workflow_state \in {PDC, PHOD}
    \/ ~is_new /\ db_workflow_state = PHOD /\ doc.workflow_state \in {PHOD, PLC}
    \/ ~is_new /\ db_workflow_state = PLC
          /\ doc.workflow_state \in {PLC, Approved, Rejected}

C16_TerminalLeavesNothing ==
    (/\ Dispatched(TerminalStates)
     /\ ~is_new
     /\ db_workflow_state \in PendingStates)
    => /\ shares = {}
       /\ \A i \in DOMAIN todos : todos[i].status # "Open"

\* C17 as stated: after a dispatch that leaves a state, the user granted when
\* the document entered that state holds no grant and has no Open ToDo
\* (unless the dispatch grants to the same user again), whatever the approver
\* fields hold by now.
C17_HolderRevokedOnLeave ==
    (/\ Dispatched(PendingStates \cup TerminalStates)
     /\ ~is_new
     /\ db_workflow_state # doc.workflow_state
     /\ holder # None
     /\ holder # NextUser(doc))
    => /\ GrantsOf(shares, holder) = {}
       /\ OpenTodos(todos, holder) = {}

\* C18 as stated: with two requests interleaving inside _share_and_assign, no
\* two ToDo rows of the document are Open for the same user in any reachable
\* state.
C18_OneOpenTodoUnderRace ==
    \A i, j \in DOMAIN todos :
        (/\ todos[i].status = "Open"
         /\ todos[j].status = "Open"
         /\ todos[i].allocated_to = todos[j].allocated_to)
        => i = j

====
